---- MODULE Spec2Model ----
(***************************************************************************)
(* Expense tracker (src/app.py): the recurring-expansion routine           *)
(* apply_recurring, run inline by the page handlers, and the form handlers *)
(* that write the expenses and recurring tables.  Every call of query() is *)
(* one connection and one commit, so it is one atomic step of a request.   *)
(***************************************************************************)
EXTENDS Integers, Sequences, FiniteSets, TLC

\* ------------------------------------------------------------- bounds
MaxPosts == 2       \* requests that do not run apply_recurring (/add, /edit/<id>, /delete/<id>, /recurring, /budget)
MaxRuns == 2        \* page views, each running apply_recurring
MaxSteps == 3       \* add_months applications in the calendar specification

\* The request workers; the serial specification uses only the first.
Requests == {1, 2}

\* ------------------------------------------------------------- values
\* A text is a sequence of one-character strings; SQL NULL / Python None
\* is a value no text equals.
NULL == <<"NULL">>
DigitChars == <<"0", "1", "2", "3", "4", "5", "6", "7", "8", "9">>

Digit(n) == DigitChars[n + 1]

DigitVal(c) == CHOOSE n \in 0..9 : DigitChars[n + 1] = c

IsDigits(t) == Len(t) > 0 /\ \A i \in 1..Len(t) : \E n \in 0..9 : DigitChars[n + 1] = t[i]

RECURSIVE Num(_)
Num(t) == IF t = <<>> THEN 0 ELSE 10 * Num(SubSeq(t, 1, Len(t) - 1)) + DigitVal(t[Len(t)])

\* A date is <<year, month, day>>; Python compares dates in that order.
DateLT(a, b) ==
    \/ a[1] < b[1]
    \/ a[1] = b[1] /\ a[2] < b[2]
    \/ a[1] = b[1] /\ a[2] = b[2] /\ a[3] < b[3]

DateLE(a, b) == a = b \/ DateLT(a, b)

\* date.isoformat(): "YYYY-MM-DD", zero padded.
isoformat(d) ==
    << Digit(d[1] \div 1000), Digit((d[1] \div 100) % 10), Digit((d[1] \div 10) % 10),
       Digit(d[1] % 10), "-", Digit(d[2] \div 10), Digit(d[2] % 10), "-",
       Digit(d[3] \div 10), Digit(d[3] % 10) >>

\* datetime.strptime(t, "%Y-%m-%d").date() on a zero-padded ISO text.
strptime(t) == << Num(SubSeq(t, 1, 4)), Num(SubSeq(t, 6, 7)), Num(SubSeq(t, 9, 10)) >>

\* str.strip(): leading and trailing blanks removed.
RECURSIVE strip(_)
strip(t) ==
    IF t = <<>> THEN t
    ELSE IF t[1] = " " THEN strip(Tail(t))
    ELSE IF t[Len(t)] = " " THEN strip(SubSeq(t, 1, Len(t) - 1))
    ELSE t

\* request.form.get(key, default): the default only when the field is absent.
form_get(form, key, default) == IF form[key] = NULL THEN default ELSE form[key]

\* A float: a finite number (integers suffice for the amounts used), nan, or inf.
Fin(n) == [kind |-> "fin", n |-> n]
NaN == [kind |-> "nan", n |-> 0]
Inf == [kind |-> "inf", n |-> 0]

\* The text before a trailing ".0", as str(float) writes a whole number.
whole_part(t) ==
    IF Len(t) > 2 /\ t[Len(t) - 1] = "." /\ t[Len(t)] = "0" THEN SubSeq(t, 1, Len(t) - 2) ELSE t

\* float(x) on the texts of the forms below and of str(float): digits with an optional
\* sign and an optional ".0", "nan" and "inf" convert, any other of those texts raises
\* ValueError.
float_ok(t) ==
    \/ IsDigits(whole_part(t))
    \/ Len(t) > 1 /\ t[1] = "-" /\ IsDigits(whole_part(Tail(t)))
    \/ t = <<"n", "a", "n">>
    \/ t = <<"i", "n", "f">>

float(t) ==
    IF IsDigits(whole_part(t)) THEN Fin(Num(whole_part(t)))
    ELSE IF t = <<"n", "a", "n">> THEN NaN
    ELSE IF t = <<"i", "n", "f">> THEN Inf
    ELSE Fin(0 - Num(whole_part(Tail(t))))

\* The decimal digits of a natural number.
RECURSIVE digits(_)
digits(n) == IF n < 10 THEN << Digit(n) >> ELSE Append(digits(n \div 10), Digit(n % 10))

\* str(v) of a float: a whole number is written with ".0".
str_float(v) ==
    IF v.kind = "nan" THEN <<"n", "a", "n">>
    ELSE IF v.kind = "inf" THEN <<"i", "n", "f">>
    ELSE IF v.n < 0 THEN <<"-">> \o digits(0 - v.n) \o <<".", "0">>
    ELSE digits(v.n) \o <<".", "0">>

\* try: amount = float(form.get("amount", "0") or 0)  except: amount = 0
parse_amount(form) ==
    LET x == form_get(form, "amount", <<"0">>) IN
    IF x = <<>> THEN Fin(0)
    ELSE IF float_ok(x) THEN float(x)
    ELSE Fin(0)

\* ------------------------------------------------------------- calendar
Min(a, b) == IF a <= b THEN a ELSE b

\* Mutant: every fourth year taken as a leap year.
month_days_julian(year) ==
    << 31, IF year % 4 = 0 THEN 29 ELSE 28, 31, 30, 31, 30, 31, 31, 30, 31, 30, 31 >>

\* The month-length table of add_months, February by the year.
month_days(year) ==
    << 31, IF year % 4 = 0 /\ (year % 100 # 0 \/ year % 400 = 0) THEN 29 ELSE 28,
       31, 30, 31, 30, 31, 31, 30, 31, 30, 31 >>

\* Mutant: the month index not brought back to 0..11 before months is added.
add_months_skip(dt, months) ==
    LET month0 == dt[2] + months
        year == dt[1] + (month0 \div 12)
        month == (month0 % 12) + 1
        day == Min(dt[3], month_days(year)[month])
    IN << year, month, day >>

add_months(dt, months) ==
    LET month0 == dt[2] - 1 + months
        year == dt[1] + (month0 \div 12)
        month == (month0 % 12) + 1
        day == Min(dt[3], month_days(year)[month])
    IN << year, month, day >>

\* Mutant: the anchor always start_date.
anchor_start(r) == r.start_date

\* last = r["last_applied"] or r["start_date"]
anchor(r) == IF r.last_applied # NULL /\ r.last_applied # <<>> THEN r.last_applied ELSE r.start_date

\* if last_dt > today: continue
not_yet(last_dt, today) == DateLT(today, last_dt)

\* Mutant: while next_dt < today.
due_strict(next_dt, today) == DateLT(next_dt, today)

\* Mutant: the occurrence compared with as-of by year and month only.
due_by_month(next_dt, today) == DateLE(<< next_dt[1], next_dt[2], 1 >>, << today[1], today[2], 1 >>)

\* while next_dt <= today
due(next_dt, today) == DateLE(next_dt, today)

\* ------------------------------------------------------------- inputs
Rent == <<"R", "e", "n", "t">>
Gym == <<"G", "y", "m">>
Other == <<"O", "t", "h", "e", "r">>
Bills == <<"B", "i", "l", "l", "s">>
monthly == <<"m", "o", "n", "t", "h", "l", "y">>

\* The dates a request may find as datetime.today().date().
AsOfDates == { <<2023, 1, 10>>, <<2023, 2, 14>>, <<2023, 2, 28>>, <<2023, 4, 1>> }

\* Submissions of the /recurring form.
RecurringForms ==
    { [item |-> Rent, amount |-> <<"1", "0", "0", "0">>,
       start_date |-> isoformat(<<2023, 1, 15>>), freq |-> NULL, category |-> NULL],
      [item |-> <<" ", "G", "y", "m", " ">>, amount |-> <<"-", "5">>,
       start_date |-> isoformat(<<2023, 1, 31>>), freq |-> monthly, category |-> Bills],
      [item |-> <<" ", " ">>, amount |-> <<"a", "b", "c">>,
       start_date |-> <<>>, freq |-> monthly, category |-> <<>>],
      [item |-> Gym, amount |-> <<"n", "a", "n">>,
       start_date |-> isoformat(<<2023, 1, 31>>), freq |-> monthly, category |-> Bills] }

\* Submissions of the /add and /edit forms.
ExpenseForms ==
    { [item |-> <<" ", "G", "y", "m">>, amount |-> <<"1", "5", "0">>,
       date |-> isoformat(<<2023, 2, 15>>), category |-> <<" ">>],
      [item |-> <<" ">>, amount |-> <<"i", "n", "f">>, date |-> <<>>, category |-> NULL] }

\* Submissions of the /budget form.
BudgetForms ==
    { [budget |-> <<"1", "0", "0">>], [budget |-> <<>>], [budget |-> <<"-", "5">>] }

\* ------------------------------------------------------------- state
VARIABLES
    expenses,     \* table expenses: a set of rows
    recurring,    \* table recurring: a set of rows
    seq,          \* sqlite_sequence: the last AUTOINCREMENT id of each table
    pc,           \* per request: where it is in apply_recurring
    rows,         \* per request: the rows read by SELECT * FROM recurring
    today,        \* per request: datetime.today().date()
    idx,          \* per request: the position of the for loop in rows
    last_dt,      \* per request
    next_dt,      \* per request
    run,          \* per request: the number of its run (history)
    nruns,        \* runs started (history)
    nposts,       \* form submissions handled (history)
    log,          \* the rows inserted by apply_recurring, in order (history)
    caught_up,    \* as-of date of the run that returned last, nothing since (history)
    probe,        \* the calendar specification's date chain
    settings,     \* table settings: the value stored under "budget", NULL when no row
    resp          \* the response to the request handled last

vars == << expenses, recurring, seq, pc, rows, today, idx, last_dt, next_dt, run,
           nruns, nposts, log, caught_up, probe, settings, resp >>

locals == << pc, rows, today, idx, last_dt, next_dt, run >>

NoDate == <<0, 0, 0>>

Probe0 == [start |-> NoDate, prev |-> NoDate, cur |-> NoDate, n |-> 0]

\* What a /charts page reports on the budget; None is an absent line.
None == [kind |-> "none", n |-> 0]
NoReport == [over |-> None, progress |-> None]

\* A response: the handler, whether the id of the URL named a stored expense (history),
\* redirect / page / error, the flashed or rendered message, the budget report.
Resp(req, hit, status, text, report) ==
    [req |-> req, hit |-> hit, status |-> status, text |-> text, report |-> report]

\* No response yet: before the first request, and while a page request is being served.
NoResp == Resp("none", TRUE, "none", "", NoReport)

InitTables ==
    /\ expenses = {}
    /\ recurring = {}
    /\ seq = [expenses |-> 0, recurring |-> 0]
    /\ pc = [p \in Requests |-> "idle"]
    /\ rows = [p \in Requests |-> <<>>]
    /\ today = [p \in Requests |-> NoDate]
    /\ idx = [p \in Requests |-> 0]
    /\ last_dt = [p \in Requests |-> NoDate]
    /\ next_dt = [p \in Requests |-> NoDate]
    /\ run = [p \in Requests |-> 0]
    /\ nruns = 0
    /\ nposts = 0
    /\ log = <<>>
    /\ caught_up = NoDate
    /\ settings = NULL
    /\ resp = NoResp

Init == InitTables /\ probe = Probe0

\* ------------------------------------------------------------- storage
\* The rows of a table in rowid order, as SELECT * returns them.
RECURSIVE by_id(_)
by_id(tbl) ==
    IF tbl = {} THEN <<>>
    ELSE LET r == CHOOSE x \in tbl : \A y \in tbl : x.id <= y.id
         IN <<r>> \o by_id(tbl \ {r})

\* INSERT INTO expenses: REAL NOT NULL refuses nan, which SQLite binds as NULL.
insert_ok(amount) == amount.kind # "nan"

insert_expense(item, amount, date, category) ==
    expenses \cup { [id |-> seq.expenses + 1, item |-> item, amount |-> amount,
                     date |-> date, category |-> category] }

\* Mutant: the UPDATE matches no row.
set_last_applied_none(tbl, id, text) == tbl

\* UPDATE recurring SET last_applied=? WHERE id=?
set_last_applied(tbl, id, text) ==
    { IF r.id = id THEN [r EXCEPT !.last_applied = text] ELSE r : r \in tbl }

\* ------------------------------------------------------------- apply_recurring
tables == << expenses, recurring, seq, settings >>

\* The template the for loop of request p is at.
cur(p) == rows[p][idx[p]]

\* Mutant: the first occurrence on the anchor itself.
first_next_same(dt) == add_months(dt, 0)

\* next_dt = add_months(last_dt, 1)
first_next(dt) == add_months(dt, 1)

\* rows = query("SELECT * FROM recurring"); today = datetime.today().date()
apply_select(p) ==
    /\ pc[p] = "idle"
    /\ nruns < MaxRuns
    /\ \E T \in AsOfDates : today' = [today EXCEPT ![p] = T]
    /\ rows' = [rows EXCEPT ![p] = by_id(recurring)]
    /\ idx' = [idx EXCEPT ![p] = 1]
    /\ pc' = [pc EXCEPT ![p] = "for"]
    /\ nruns' = nruns + 1
    /\ run' = [run EXCEPT ![p] = nruns + 1]
    /\ resp' = NoResp
    /\ UNCHANGED << tables, last_dt, next_dt, nposts, log, caught_up, probe >>

\* for r in rows: the anchor, the skip of a template not yet started, the first next_dt
apply_for(p) ==
    /\ pc[p] = "for"
    /\ idx[p] <= Len(rows[p])
    /\ LET dt == strptime(anchor(cur(p))) IN
       /\ last_dt' = [last_dt EXCEPT ![p] = dt]
       /\ \/ /\ not_yet(dt, today[p])
             /\ idx' = [idx EXCEPT ![p] = idx[p] + 1]
             /\ UNCHANGED << pc, next_dt >>
          \/ /\ ~not_yet(dt, today[p])
             /\ next_dt' = [next_dt EXCEPT ![p] = first_next(dt)]
             /\ pc' = [pc EXCEPT ![p] = "while"]
             /\ UNCHANGED idx
    /\ UNCHANGED << tables, rows, today, run, nruns, nposts, log, caught_up, probe, resp >>

\* The history record of one materialized row.
log_entry(p) ==
    [run |-> run[p], tid |-> cur(p).id, date |-> next_dt[p], eid |-> seq.expenses + 1,
     asof |-> today[p], start |-> strptime(cur(p).start_date),
     from |-> strptime(anchor(cur(p)))]

\* while next_dt <= today: query("INSERT INTO expenses ...")
apply_insert(p) ==
    /\ pc[p] = "while"
    /\ due(next_dt[p], today[p])
    /\ expenses' = insert_expense(cur(p).item, cur(p).amount, isoformat(next_dt[p]),
                                  cur(p).category)
    /\ seq' = [seq EXCEPT !.expenses = seq.expenses + 1]
    /\ log' = Append(log, log_entry(p))
    /\ pc' = [pc EXCEPT ![p] = "update"]
    /\ UNCHANGED << recurring, rows, today, idx, last_dt, next_dt, run, nruns, nposts,
                    caught_up, probe, settings, resp >>

\* The while loop ends: on to the next template.
apply_next(p) ==
    /\ pc[p] = "while"
    /\ ~due(next_dt[p], today[p])
    /\ idx' = [idx EXCEPT ![p] = idx[p] + 1]
    /\ pc' = [pc EXCEPT ![p] = "for"]
    /\ UNCHANGED << tables, rows, today, last_dt, next_dt, run, nruns, nposts, log,
                    caught_up, probe, resp >>

\* Mutant: next_dt is not advanced after the update.
apply_update_stuck(p) ==
    /\ pc[p] = "update"
    /\ recurring' = set_last_applied(recurring, cur(p).id, isoformat(next_dt[p]))
    /\ last_dt' = [last_dt EXCEPT ![p] = next_dt[p]]
    /\ pc' = [pc EXCEPT ![p] = "while"]
    /\ UNCHANGED << expenses, seq, rows, today, idx, next_dt, run, nruns, nposts, log,
                    caught_up, probe, settings, resp >>

\* Mutant: last_applied written from last_dt, before it is advanced.
apply_update_stale(p) ==
    /\ pc[p] = "update"
    /\ recurring' = set_last_applied(recurring, cur(p).id, isoformat(last_dt[p]))
    /\ last_dt' = [last_dt EXCEPT ![p] = next_dt[p]]
    /\ next_dt' = [next_dt EXCEPT ![p] = add_months(next_dt[p], 1)]
    /\ pc' = [pc EXCEPT ![p] = "while"]
    /\ UNCHANGED << expenses, seq, rows, today, idx, run, nruns, nposts, log, caught_up,
                    probe, settings, resp >>

\* query("UPDATE recurring SET last_applied=? WHERE id=?"); last_dt = next_dt;
\* next_dt = add_months(last_dt, 1)
apply_update(p) ==
    /\ pc[p] = "update"
    /\ recurring' = set_last_applied(recurring, cur(p).id, isoformat(next_dt[p]))
    /\ last_dt' = [last_dt EXCEPT ![p] = next_dt[p]]
    /\ next_dt' = [next_dt EXCEPT ![p] = add_months(next_dt[p], 1)]
    /\ pc' = [pc EXCEPT ![p] = "while"]
    /\ UNCHANGED << expenses, seq, rows, today, idx, run, nruns, nposts, log, caught_up,
                    probe, settings, resp >>

\* The locals of request p are gone.
end_run(p) ==
    /\ pc' = [pc EXCEPT ![p] = "idle"]
    /\ rows' = [rows EXCEPT ![p] = <<>>]
    /\ today' = [today EXCEPT ![p] = NoDate]
    /\ idx' = [idx EXCEPT ![p] = 0]
    /\ last_dt' = [last_dt EXCEPT ![p] = NoDate]
    /\ next_dt' = [next_dt EXCEPT ![p] = NoDate]
    /\ run' = [run EXCEPT ![p] = 0]

\* return, into home(), view() or summary(), which render their page.
apply_return(p) ==
    /\ pc[p] = "for"
    /\ idx[p] > Len(rows[p])
    /\ resp' = Resp("page", TRUE, "page", "", NoReport)
    /\ caught_up' = today[p]
    /\ end_run(p)
    /\ UNCHANGED << tables, nruns, nposts, log, probe >>

\* The id of the URL names a stored expense.
stored_id(expense_id) == \E e \in expenses : e.id = expense_id

\* ------------------------------------------------------------- form handlers
\* request.form.get("date") or datetime.today().date().isoformat()
date_or_today(text, T) == IF text = NULL \/ text = <<>> THEN isoformat(T) ELSE text

\* if not item: flash("Please enter an item name"); return redirect(url_for("add"))
add_rejects(item) == item = <<>>

\* POST /add
add(form) ==
    /\ nposts < MaxPosts
    /\ nposts' = nposts + 1
    /\ caught_up' = NoDate
    /\ \E T \in AsOfDates :
         LET item == strip(form_get(form, "item", <<>>))
             amount == parse_amount(form)
             date == date_or_today(form.date, T)
             c == strip(form_get(form, "category", Other))
             category == IF c = <<>> THEN Other ELSE c
         IN IF add_rejects(item)
            THEN /\ resp' = Resp("add", TRUE, "redirect", "Please enter an item name", NoReport)
                 /\ UNCHANGED << expenses, seq >>
            ELSE IF ~insert_ok(amount)
            THEN /\ resp' = Resp("add", TRUE, "error", "IntegrityError", NoReport)
                 /\ UNCHANGED << expenses, seq >>
            ELSE /\ resp' = Resp("add", TRUE, "redirect", "Expense added", NoReport)
                 /\ expenses' = insert_expense(item, amount, date, category)
                 /\ seq' = [seq EXCEPT !.expenses = seq.expenses + 1]
    /\ UNCHANGED << recurring, locals, nruns, log, probe, settings >>

\* if not item: none in edit
edit_rejects(item) == FALSE

\* The response of POST /edit/<expense_id> once the UPDATE has run.
edit_done(expense_id) == Resp("edit_post", stored_id(expense_id), "redirect", "Updated", NoReport)

\* POST /edit/<expense_id>
edit(expense_id, form) ==
    /\ nposts < MaxPosts
    /\ nposts' = nposts + 1
    /\ caught_up' = NoDate
    /\ \E T \in AsOfDates :
         LET item == strip(form_get(form, "item", <<>>))
             amount == parse_amount(form)
             date == date_or_today(form.date, T)
             category == form_get(form, "category", Other)
         IN IF edit_rejects(item)
            THEN /\ resp' = Resp("edit_post", stored_id(expense_id), "redirect",
                                 "Please enter an item name", NoReport)
                 /\ UNCHANGED expenses
            ELSE IF ~insert_ok(amount) /\ stored_id(expense_id)
            THEN /\ resp' = Resp("edit_post", TRUE, "error", "IntegrityError", NoReport)
                 /\ UNCHANGED expenses
            ELSE /\ resp' = edit_done(expense_id)
                 /\ expenses' = { IF e.id = expense_id
                                  THEN [e EXCEPT !.item = item, !.amount = amount,
                                                 !.date = date, !.category = category]
                                  ELSE e : e \in expenses }
    /\ UNCHANGED << recurring, seq, locals, nruns, log, probe, settings >>

\* GET /edit/<expense_id>: the form filled from the stored row, or "Not found".
edit_get(expense_id) ==
    /\ nposts < MaxPosts
    /\ nposts' = nposts + 1
    /\ caught_up' = NoDate
    /\ resp' = IF stored_id(expense_id)
               THEN Resp("edit_get", TRUE, "page", "Edit Expense", NoReport)
               ELSE Resp("edit_get", FALSE, "page", "Not found", NoReport)
    /\ UNCHANGED << tables, locals, nruns, log, probe >>

\* GET /delete/<expense_id>
delete(expense_id) ==
    /\ nposts < MaxPosts
    /\ nposts' = nposts + 1
    /\ caught_up' = NoDate
    /\ expenses' = { e \in expenses : e.id # expense_id }
    /\ resp' = Resp("delete", stored_id(expense_id), "redirect", "Deleted", NoReport)
    /\ UNCHANGED << recurring, seq, settings, locals, nruns, log, probe >>

\* if not item: none in recurring
recurring_rejects(item) == FALSE

\* POST /recurring
recurring_post(form) ==
    /\ nposts < MaxPosts
    /\ nposts' = nposts + 1
    /\ caught_up' = NoDate
    /\ \E T \in AsOfDates :
         LET item == strip(form_get(form, "item", <<>>))
             amount == parse_amount(form)
             start_date == date_or_today(form.start_date, T)
             freq == form_get(form, "freq", monthly)
             category == form_get(form, "category", Other)
         IN IF recurring_rejects(item)
            THEN /\ resp' = Resp("recurring", TRUE, "redirect", "Please enter an item name",
                                 NoReport)
                 /\ UNCHANGED << recurring, seq >>
            ELSE IF ~insert_ok(amount)
            THEN /\ resp' = Resp("recurring", TRUE, "error", "IntegrityError", NoReport)
                 /\ UNCHANGED << recurring, seq >>
            ELSE /\ resp' = Resp("recurring", TRUE, "redirect", "Recurring saved", NoReport)
                 /\ recurring' = recurring \cup
                        { [id |-> seq.recurring + 1, item |-> item, amount |-> amount,
                           start_date |-> start_date, freq |-> freq,
                           last_applied |-> NULL, category |-> category] }
                 /\ seq' = [seq EXCEPT !.recurring = seq.recurring + 1]
    /\ UNCHANGED << expenses, locals, nruns, log, probe, settings >>

\* ------------------------------------------------------------- budget
\* try: val = float(request.form.get("budget") or 0)  except: val = 0
\* The text str(val) that is stored: the except branch leaves the integer 0, written "0".
budget_value(form) ==
    LET x == form.budget IN
    IF x = NULL \/ x = <<>> THEN str_float(Fin(0))
    ELSE IF float_ok(x) THEN str_float(float(x))
    ELSE <<"0">>

\* POST /budget: set_setting("budget", val) stores str(val)
budget_post(form) ==
    /\ nposts < MaxPosts
    /\ nposts' = nposts + 1
    /\ caught_up' = NoDate
    /\ settings' = budget_value(form)
    /\ resp' = Resp("budget", TRUE, "redirect", "Budget saved", NoReport)
    /\ UNCHANGED << expenses, recurring, seq, locals, nruns, log, probe >>

\* Python truth of a stored text and of a float.
truthy_text(t) == t # NULL /\ t # <<>>
truthy(v) == ~(v.kind = "fin" /\ v.n = 0)

\* a > b on floats (of the kinds above; inf is +inf)
fgt(a, b) ==
    IF a.kind = "nan" \/ b.kind = "nan" THEN FALSE
    ELSE IF a.kind = "inf" THEN b.kind = "fin"
    ELSE IF b.kind = "inf" THEN FALSE
    ELSE a.n > b.n

\* a - b on floats, for a > b
fsub(a, b) ==
    IF a.kind = "fin" /\ b.kind = "fin" THEN Fin(a.n - b.n)
    ELSE IF a.kind = "inf" /\ b.kind = "fin" THEN Inf
    ELSE NaN

RECURSIVE sum_n(_)
sum_n(tbl) ==
    IF tbl = {} THEN 0
    ELSE LET e == CHOOSE x \in tbl : TRUE IN e.amount.n + sum_n(tbl \ {e})

\* query("SELECT SUM(amount) AS total FROM expenses", one=True)["total"] or 0
chart_total(tbl) ==
    IF \E e \in tbl : e.amount.kind = "inf" THEN Inf ELSE Fin(sum_n(tbl))

\* num / den to the nearest integer, a tie to the even one (den > 0)
round_div(num, den) ==
    LET q == num \div den
        r == num % den
    IN IF 2 * r < den THEN q
       ELSE IF 2 * r > den THEN q + 1
       ELSE IF q % 2 = 0 THEN q ELSE q + 1

\* A percentage, in hundredths of a percent: round(x, 2).
Pct(h) == [kind |-> "pct", n |-> h]

\* Mutant: the ratio not turned into a percentage.
chart_progress_ratio(total, budget_val) ==
    IF truthy(budget_val) /\ fgt(budget_val, Fin(0))
    THEN (IF total.kind = "fin" /\ budget_val.kind = "fin"
          THEN Pct(round_div(total.n * 100, budget_val.n))
          ELSE IF total.kind = "fin" THEN Pct(0)
          ELSE IF budget_val.kind = "fin" THEN Inf ELSE NaN)
    ELSE None

\* progress = round(total / budget_val * 100, 2) if budget_val and budget_val > 0 else None
chart_progress(total, budget_val) ==
    IF truthy(budget_val) /\ fgt(budget_val, Fin(0))
    THEN (IF total.kind = "fin" /\ budget_val.kind = "fin"
          THEN Pct(round_div(total.n * 10000, budget_val.n))
          ELSE IF total.kind = "fin" THEN Pct(0)
          ELSE IF budget_val.kind = "fin" THEN Inf ELSE NaN)
    ELSE None

\* "Over budget by round(total - budget_val, 2)" if budget_val and total > budget_val
chart_over(total, budget_val) ==
    IF truthy(budget_val) /\ fgt(total, budget_val) THEN fsub(total, budget_val) ELSE None

\* The budget lines of the /charts page.
chart_report ==
    IF truthy_text(settings)
    THEN [over |-> chart_over(chart_total(expenses), float(settings)),
          progress |-> chart_progress(chart_total(expenses), float(settings))]
    ELSE NoReport

\* return, into charts(), which reads the budget and the total and renders them.
charts_return(p) ==
    /\ pc[p] = "for"
    /\ idx[p] > Len(rows[p])
    /\ resp' = Resp("charts", TRUE, "page", "Charts", chart_report)
    /\ caught_up' = today[p]
    /\ end_run(p)
    /\ UNCHANGED << tables, nruns, nposts, log, probe >>

\* ------------------------------------------------------------- specifications
\* Requests interleave at the granularity of query().
ConcurrentNext ==
    \/ \E p \in Requests :
         \/ apply_select(p)
         \/ apply_for(p)
         \/ apply_insert(p)
         \/ apply_next(p)
         \/ apply_update(p)
         \/ apply_return(p)
    \/ \E form \in ExpenseForms : add(form)
    \/ \E form \in ExpenseForms : \E id \in 1..(seq.expenses + 1) : edit(id, form)
    \/ \E form \in RecurringForms : recurring_post(form)

ConcurrentSpec == Init /\ [][ConcurrentNext]_vars

\* One request at a time: a request starts only when no other is running.
Quiet == \A p \in Requests : pc[p] = "idle"

Next ==
    \/ Quiet /\ apply_select(1)
    \/ apply_for(1)
    \/ apply_insert(1)
    \/ apply_next(1)
    \/ apply_update(1)
    \/ apply_return(1)
    \/ Quiet /\ \E form \in ExpenseForms : add(form)
    \/ Quiet /\ \E form \in ExpenseForms : \E id \in 1..(seq.expenses + 1) : edit(id, form)
    \/ Quiet /\ \E form \in RecurringForms : recurring_post(form)
    \/ Quiet /\ \E id \in 1..(seq.expenses + 1) : edit_get(id)
    \/ Quiet /\ \E id \in 1..(seq.expenses + 1) : delete(id)

Spec == Init /\ [][Next]_vars

\* Serial operation with the budget: /budget sets it and /charts reports on it.
BudgetNext ==
    \/ Next
    \/ Quiet /\ \E form \in BudgetForms : budget_post(form)
    \/ charts_return(1)

BudgetSpec == Init /\ [][BudgetNext]_vars

\* The calendar alone: add_months applied repeatedly from any valid date.
ProbeYears == {1900, 2000, 2023, 2024}

IsLeap(y) == (y % 4 = 0 /\ y % 100 # 0) \/ y % 400 = 0

DaysIn(y, m) == IF m = 2 THEN (IF IsLeap(y) THEN 29 ELSE 28)
                ELSE IF m \in {4, 6, 9, 11} THEN 30 ELSE 31

ProbeDates == { d \in ProbeYears \X (1..12) \X (1..31) : d[3] <= DaysIn(d[1], d[2]) }

ClampInit ==
    /\ InitTables
    /\ \E d \in ProbeDates : probe = [start |-> d, prev |-> d, cur |-> d, n |-> 0]

\* next_dt = add_months(last_dt, 1), from the most recent anchor
clamp_step ==
    /\ probe.n < MaxSteps
    /\ probe' = [probe EXCEPT !.prev = probe.cur, !.cur = add_months(probe.cur, 1),
                              !.n = probe.n + 1]
    /\ UNCHANGED << tables, locals, nruns, nposts, log, caught_up, resp >>

ClampSpec == ClampInit /\ [][clamp_step]_vars

\* ------------------------------------------------------------- claims
\* One calendar month after d, the day clamped to the target month's length.
NextMonth(d) ==
    LET y == IF d[2] = 12 THEN d[1] + 1 ELSE d[1]
        m == IF d[2] = 12 THEN 1 ELSE d[2] + 1
    IN << y, m, Min(d[3], DaysIn(y, m)) >>

\* The monthly occurrences after anchor a that are on or before T, in order.
RECURSIVE Occ(_, _)
Occ(a, T) == IF DateLE(NextMonth(a), T) THEN <<NextMonth(a)>> \o Occ(NextMonth(a), T) ELSE <<>>

\* The rows run k materialized for template tid, in insertion order.
RunLog(k, tid) == SelectSeq(log, LAMBDA e : e.run = k /\ e.tid = tid)

Dates(entries) == [i \in 1..Len(entries) |-> entries[i].date]

\* Request p has gone through every template and is about to return.
AtReturn(p) == pc[p] = "for" /\ idx[p] > Len(rows[p])

\* The stored template of a snapshot row (serially, it is never removed meanwhile).
Stored(r) == CHOOSE s \in recurring : s.id = r.id

\* Entry e's expense row is stored as inserted from template r.
RowOf(e, r) ==
    \E x \in expenses :
        /\ x.id = e.eid
        /\ x.item = r.item /\ x.amount = r.amount /\ x.category = r.category
        /\ x.date = isoformat(e.date)

\* What a serial run leaves for snapshot row r, given the value last_applied must have
\* when no occurrence is due.
Expanded(p, r, unchanged) ==
    LET occ == Occ(strptime(anchor(r)), today[p])
        entries == RunLog(run[p], r.id)
    IN /\ Dates(entries) = occ
       /\ \A i \in 1..Len(entries) : RowOf(entries[i], r)
       /\ \A i, j \in 1..Len(entries) : i # j => entries[i].eid # entries[j].eid
       /\ Stored(r).last_applied = IF occ = <<>> THEN unchanged ELSE isoformat(occ[Len(occ)])

\* C1 as stated: after a serial run with as-of T >= A, last_applied is the greatest date
\* <= T of the chain A, A + 1 month, ... (the anchor itself when nothing is due) and
\* exactly one row was inserted per occurrence in (A, last_applied].
C1_AsStated ==
    AtReturn(1) =>
        \A i \in 1..Len(rows[1]) :
            DateLE(strptime(anchor(rows[1][i])), today[1])
                => Expanded(1, rows[1][i], anchor(rows[1][i]))

\* C1 as amended: after a serial run with as-of T >= A, exactly one row (the template's
\* item, amount, category) was inserted per monthly occurrence in (A, T] and for no other
\* date; last_applied is the greatest such occurrence, and is left as it was (null for a
\* template never applied) when there is none.
C1_Expansion ==
    AtReturn(1) =>
        \A i \in 1..Len(rows[1]) :
            DateLE(strptime(anchor(rows[1][i])), today[1])
                => Expanded(1, rows[1][i], rows[1][i].last_applied)

C1_Witness ==
    /\ AtReturn(1)
    /\ \E i \in 1..Len(rows[1]) :
          /\ rows[1][i].last_applied # NULL
          /\ Len(RunLog(run[1], rows[1][i].id)) >= 1
    /\ \E i \in 1..Len(rows[1]) :
          /\ rows[1][i].last_applied = NULL
          /\ DateLE(strptime(anchor(rows[1][i])), today[1])
          /\ RunLog(run[1], rows[1][i].id) = <<>>

\* C2: a run with the as-of date of the run that returned just before it, nothing having
\* happened in between, inserts no row and changes no last_applied.
C2_Idempotent ==
    \A p \in Requests :
        (pc[p] # "idle" /\ caught_up = today[p]) =>
            /\ pc[p] # "update"
            /\ \A i \in 1..Len(log) : log[i].run # run[p]
            /\ \A i \in 1..Len(rows[p]) : Stored(rows[p][i]) = rows[p][i]

C2_Witness ==
    /\ AtReturn(1)
    /\ caught_up = today[1]
    /\ \E i \in 1..Len(rows[1]) : rows[1][i].last_applied = isoformat(<<2023, 3, 28>>)

\* C3: two rows for the same template and occurrence date come from two different runs
\* (and such a pair is reachable when requests interleave: the witness).
C3_DoubleOnlyAcrossRuns ==
    \A i, j \in 1..Len(log) :
        (i < j /\ log[i].tid = log[j].tid /\ log[i].date = log[j].date)
            => log[i].run # log[j].run

C3_DoubleInsert ==
    \E i, j \in 1..Len(log) :
        /\ i < j /\ log[i].tid = log[j].tid /\ log[i].date = log[j].date
        /\ log[i].from = log[j].from
        /\ \E x, y \in expenses : x.id = log[i].eid /\ y.id = log[j].eid /\ x.date = y.date

\* C4: serially, no template has produced two rows dated in the same calendar month.
C4_OnePerMonth ==
    \A i, j \in 1..Len(log) :
        (i < j /\ log[i].tid = log[j].tid)
            => << log[i].date[1], log[i].date[2] >> # << log[j].date[1], log[j].date[2] >>

C4_Witness ==
    \E i, j \in 1..Len(log) :
        /\ log[i].tid = log[j].tid /\ log[i].run < log[j].run
        /\ log[i].date[2] + 1 = log[j].date[2]

\* C5: last_applied is null or strictly after start_date, and no step of any serial
\* run decreases it or returns it to null.
C5_StrictlyAfterStart ==
    \A r \in recurring :
        r.last_applied = NULL \/ DateLT(strptime(r.start_date), strptime(r.last_applied))

C5_NeverBack ==
    \A r \in recurring : \A s \in recurring' :
        (r.id = s.id /\ r.last_applied # NULL)
            => /\ s.last_applied # NULL
               /\ DateLE(strptime(r.last_applied), strptime(s.last_applied))

\* C5: in every state of serial operation last_applied is null or a date strictly after
\* start_date, and every step leaves a set last_applied set and no earlier than it was.
C5_LastApplied == [](C5_StrictlyAfterStart) /\ [][C5_NeverBack]_vars

C5_Witness ==
    \E r \in recurring :
        /\ r.last_applied # NULL
        /\ \E i \in 1..Len(log) : log[i].tid = r.id /\ log[i].run = 1
        /\ AtReturn(1) /\ run[1] = 2 /\ DateLT(today[1], strptime(r.last_applied))

\* C6: add_months(d, 1) is a valid date of the following calendar month, its day the
\* smaller of d's day and that month's length (February: 29 days exactly in leap years),
\* each step taken from the previous result: Jan 31 gives Feb 28/29, then Mar 28/29.
C6_Clamp ==
    probe.n >= 1 =>
        /\ probe.cur[2] \in 1..12
        /\ probe.cur[3] \in 1..DaysIn(probe.cur[1], probe.cur[2])
        /\ probe.cur[1] * 12 + probe.cur[2] = probe.prev[1] * 12 + probe.prev[2] + 1
        /\ probe.cur[3] = Min(probe.prev[3], DaysIn(probe.cur[1], probe.cur[2]))
        /\ (probe.start[2] = 1 /\ probe.start[3] = 31 /\ probe.n \in {1, 2})
              => probe.cur = << probe.start[1], probe.n + 1,
                                IF IsLeap(probe.start[1]) THEN 29 ELSE 28 >>

C6_Witness ==
    probe.n = 2 /\ probe.start = <<2024, 1, 31>> /\ probe.prev = <<2024, 2, 29>>
        /\ probe.cur = <<2024, 3, 29>>

\* C7: the Rent scenario: one template (Rent, 1000, start 2023-01-15, never applied), no
\* expenses, one run with as-of 2023-04-01.
C7_Scenario ==
    /\ AtReturn(1)
    /\ today[1] = <<2023, 4, 1>>
    /\ Len(rows[1]) = 1
    /\ rows[1][1].item = Rent /\ rows[1][1].amount = Fin(1000)
    /\ rows[1][1].start_date = isoformat(<<2023, 1, 15>>)
    /\ rows[1][1].last_applied = NULL
    /\ recurring = { Stored(rows[1][1]) }
    /\ seq.expenses = Len(log)
    /\ \A i \in 1..Len(log) : log[i].run = run[1]

C7_Outcome(n) ==
    /\ Cardinality(expenses) = n
    /\ { e.date : e \in expenses } = { isoformat(<<2023, 2, 15>>), isoformat(<<2023, 3, 15>>) }
    /\ \A e \in expenses : e.item = Rent /\ e.amount = Fin(1000)
    /\ \A r \in recurring : r.last_applied = isoformat(<<2023, 3, 15>>)

\* C7 as stated: the scenario yields 3 rows, dated 2023-02-15 and 2023-03-15.
C7_AsStated == C7_Scenario => C7_Outcome(3)

\* C7 as amended: the scenario yields 2 rows, dated 2023-02-15 and 2023-03-15 (none for
\* 2023-04-15), and last_applied = 2023-03-15.
C7_RentScenario == C7_Scenario => C7_Outcome(2)

\* C8: a template whose anchor is after as-of is skipped, and every materialized row is
\* dated after its template's start_date, at start_date plus one month at the earliest,
\* and never after the as-of date of its run.
C8_NothingEarly ==
    /\ \A i \in 1..Len(log) :
          /\ DateLT(log[i].start, log[i].date)
          /\ DateLE(NextMonth(log[i].start), log[i].date)
          /\ DateLE(log[i].date, log[i].asof)
          /\ DateLE(NextMonth(log[i].start), log[i].asof)
    /\ AtReturn(1) =>
          \A i \in 1..Len(rows[1]) :
              DateLT(today[1], strptime(anchor(rows[1][i])))
                  => /\ RunLog(run[1], rows[1][i].id) = <<>>
                     /\ Stored(rows[1][i]) = rows[1][i]

C8_Witness ==
    /\ AtReturn(1)
    /\ \E i \in 1..Len(rows[1]) :
          /\ rows[1][i].last_applied = NULL
          /\ DateLT(today[1], strptime(rows[1][i].start_date))
    /\ \E i \in 1..Len(rows[1]) :
          /\ rows[1][i].last_applied # NULL
          /\ DateLT(today[1], strptime(rows[1][i].last_applied))

\* C9: a run materializes each of the k missed occurrences of a template as its own row,
\* later rows (larger ids) dated strictly later, and last_applied is set to each
\* occurrence right after its row is inserted.
C9_CatchUp ==
    /\ \A i, j \in 1..Len(log) :
          (i < j /\ log[i].run = log[j].run /\ log[i].tid = log[j].tid)
              => log[i].eid < log[j].eid /\ DateLT(log[i].date, log[j].date)
    /\ AtReturn(1) =>
          \A i \in 1..Len(rows[1]) :
              LET r == rows[1][i]
                  entries == RunLog(run[1], r.id)
              IN DateLE(strptime(anchor(r)), today[1])
                     => /\ Len(entries) = Len(Occ(strptime(anchor(r)), today[1]))
                        /\ Cardinality({ x \in expenses :
                               \E n \in 1..Len(entries) : x.id = entries[n].eid })
                             = Len(entries)
    /\ pc[1] \in {"while", "update"} =>
          LET entries == RunLog(run[1], cur(1).id)
              n == Len(entries)
          IN /\ pc[1] = "while" /\ n > 0
                   => Stored(cur(1)).last_applied = isoformat(entries[n].date)
             /\ pc[1] = "update"
                   => /\ n > 0 /\ entries[n].date = next_dt[1]
                      /\ Stored(cur(1)).last_applied =
                             IF n = 1 THEN cur(1).last_applied
                             ELSE isoformat(entries[n - 1].date)

C9_Witness ==
    /\ AtReturn(1)
    /\ \E i \in 1..Len(rows[1]) : Len(RunLog(run[1], rows[1][i].id)) >= 2

\* C10: no stored expense or template has an empty item name.
C10_NoEmptyItem ==
    /\ \A e \in expenses : e.item # <<>>
    /\ \A r \in recurring : r.item # <<>>

\* C12: every stored Expense.amount and RecurringTemplate.amount is a finite non-negative
\* number.
C12_AmountsValid ==
    /\ \A e \in expenses : e.amount.kind = "fin" /\ e.amount.n >= 0
    /\ \A r \in recurring : r.amount.kind = "fin" /\ r.amount.n >= 0

\* C11: for an id that names no stored expense, an edit request (GET or POST) reports
\* "Not found" and a delete request ends without an error.
C11_AbsentId ==
    ~resp.hit =>
        /\ resp.req \in {"edit_get", "edit_post"} => resp.text = "Not found"
        /\ resp.req = "delete" => resp.status = "redirect"

\* The part of C11 that holds: such a request leaves the expenses table as it was.
C11_AbsentIdUnchanged ==
    [][(nposts' # nposts /\ ~resp'.hit) => expenses' = expenses]_vars


\* ------------------------------------------------------------- C13
\* The charts page has just been rendered and nothing has been written since.
ChartsShown == Quiet /\ resp.req = "charts"

\* A budget is stored and every stored amount is a finite number.
BudgetSet == settings # NULL /\ \A e \in expenses : e.amount.kind = "fin"

\* The stored budget B and the lifetime sum S, as numbers.
B == float(settings).n
S == sum_n(expenses)

\* C13 as stated: for every set budget B and every S, over-budget is reported exactly when
\* S > B, with overrun S - B, and progress is reported as S / B * 100 percent.
C13_AsStated ==
    (ChartsShown /\ BudgetSet) =>
        /\ (resp.report.over # None) <=> (S > B)
        /\ S > B => resp.report.over = Fin(S - B)
        /\ resp.report.progress # None
        /\ B # 0 => resp.report.progress = Pct(round_div(S * 10000, B))

\* C13, amended: the status is computed from the stored budget B and the lifetime sum S.
\* A budget of 0 is shown as not set and reports nothing. For B # 0, over-budget is
\* reported exactly when S > B, with overrun S - B. Progress is reported exactly when
\* B > 0, as S / B * 100 percent rounded to two decimals. B = 100 and S = 150 reports over
\* budget by exactly 50 and progress 150%.
C13_BudgetStatus ==
    (ChartsShown /\ BudgetSet) =>
        /\ (resp.report.over # None) <=> (B # 0 /\ S > B)
        /\ (B # 0 /\ S > B) => resp.report.over = Fin(S - B)
        /\ (resp.report.progress # None) <=> (B > 0)
        /\ B > 0 => resp.report.progress = Pct(round_div(S * 10000, B))
        /\ (B = 100 /\ S = 150) => resp.report = [over |-> Fin(50), progress |-> Pct(15000)]

\* Budget 100 with total spend 150: over budget by 50, progress 150%.
C13_Witness ==
    /\ ChartsShown
    /\ BudgetSet
    /\ B = 100
    /\ S = 150
    /\ resp.report = [over |-> Fin(50), progress |-> Pct(15000)]
====
